---- MODULE Spec2Model ----
(***************************************************************************)
(* ProLink: the profile, signup and link handlers and the three DynamoDB   *)
(* tables they keep consistent (users keyed by user_id, profiles keyed by   *)
(* username, links keyed by (user_id, link_id)).                            *)
(*                                                                          *)
(* Representation of Python values:                                         *)
(*   - a table is a function from the keys present to items;                *)
(*   - an item or a JSON body is a function from the attribute names        *)
(*     present to values (a missing attribute is outside DOMAIN);           *)
(*   - user ids, usernames and emails are sequences of one-character        *)
(*     strings, so that slicing, sanitising and the username pattern are    *)
(*     computed; <<>> is the empty string / None;                           *)
(*   - free text (bio, title, names, keys) is a TLA+ string, "" empty;      *)
(*   - a URL is <<kind, key, signed_at>>: kind "s3" when the URL contains   *)
(*     s3.amazonaws.com, key the object key after ".s3.amazonaws.com/",     *)
(*     signed_at > 0 when it carries an X-Amz-Signature made at that time;  *)
(*     <<>> is the empty URL;                                               *)
(*   - datetime.utcnow().isoformat() is the value of the clock now;         *)
(*   - calls holds, for each caller with a POST /profiles invocation in     *)
(*     flight, the position and the local variables of that invocation.     *)
(***************************************************************************)
EXTENDS Integers, Sequences, FiniteSets, TLC

VARIABLES users_table, profiles_table, links_table, now, request, response, links, calls

vars == <<users_table, profiles_table, links_table, now, request, response, links, calls>>

\* ------------------------------------------------------------------ bounds
\* Number of timestamped writes explored from the empty tables, in the
\* profile, signup and link specifications.
MaxProfileWrites == 2
MaxSignupWrites == 3
MaxLinkWrites == 4
\* Number of timestamped writes of concurrently running upserts.
MaxRaceWrites == 4

\* ------------------------------------------------------------ python helpers
Get(item, key, default) == IF key \in DOMAIN item THEN item[key] ELSE default

NoItem == [k \in {} |-> ""]

Put(table, key, item) == [k \in (DOMAIN table) \cup {key} |-> IF k = key THEN item ELSE table[k]]

\* d1 | d2 restricted to attribute names: values of d1 win.
Merge(d1, d2) == [k \in (DOMAIN d1) \cup (DOMAIN d2) |-> IF k \in DOMAIN d1 THEN d1[k] ELSE d2[k]]

Without(item, keys) == [k \in (DOMAIN item) \ keys |-> item[k]]

Min(a, b) == IF a < b THEN a ELSE b

\* s[:n]
Take(s, n) == SubSeq(s, 1, Min(n, Len(s)))

\* ------------------------------------------------------------------ inputs
U1 == <<"a", "1", "1", "1", "1", "1", "1", "1", "x">>
U2 == <<"b", "2", "2", "2", "2", "2", "2", "2", "y">>
NoUser == <<>>

BOB == <<"b", "o", "b">>
AMY == <<"a", "m", "y">>

\* al@x : local part shorter than three characters
E1 == <<"a", "l", "@", "x">>
\* bob@x : local part is a well-formed username
E2 == <<"b", "o", "b", "@", "x">>

AL == <<"A", "l">>
AL_SM == <<"A", "l", " ", "S", "m">>

AvatarS3 == <<"s3", "users/a/profile/p.jpg", 0>>
ResumeExt == <<"ext", "cv.example/al.pdf", 0>>

P1 == [title |-> "site", description |-> "d", tech_stack |-> <<"tla">>, image_key |-> "i1"]
P2 == [title |-> "app", description |-> "e", tech_stack |-> <<"py">>, image_key |-> "i2"]

\* Submitted profile bodies (without the username key).
B0 == NoItem
B1 ==
  [skills |-> <<"Go">>, email |-> E1, phone |-> "555", bio |-> "hi", title |-> "dev",
   full_name |-> AL_SM, resume_key |-> "users/a/resume/cv.pdf", date_of_birth |-> "2000-01-01"]
B2 ==
  [projects |-> <<P1>>, social_links |-> [github |-> "https://github.com/al"],
   show_email |-> TRUE, show_phone |-> FALSE, profile_image_url |-> AvatarS3,
   resume_url |-> ResumeExt, favorite_color |-> "red"]
B3 ==
  [skills |-> <<>>, projects |-> <<>>, social_links |-> NoItem, bio |-> "", title |-> "",
   full_name |-> <<>>, email |-> <<>>, show_email |-> FALSE, show_phone |-> TRUE]
B4 ==
  [skills |-> <<"Py", "Go">>, projects |-> <<P2, P1>>, social_links |-> [linkedin |-> "https://linkedin.com/in/al"],
   show_resume |-> TRUE, phone |-> ""]

ProfileBodies == {B0, B1, B2, B3, B4}

\* ----------------------------------------------------- profiles: POST /profiles
\* The deployment sets S3_BUCKET, so s3_client is initialised.
s3_bucket_name == "bucket"

\* generate_presigned_url: a URL for the key, signed at the time of the call.
get_resume_url_from_key(resume_key, t) ==
  IF resume_key = "" THEN <<>>
  ELSE IF s3_bucket_name = "" THEN <<>>
  ELSE <<"s3", resume_key, t>>

username_taken_same_user(profiles, username, user_id) ==
  /\ username \in DOMAIN profiles
  /\ Get(profiles[username], "user_id", <<>>) = user_id

\* 'Item' in existing and existing['Item'].get('user_id') != user_id
username_taken(profiles, username, user_id) ==
  /\ username \in DOMAIN profiles
  /\ Get(profiles[username], "user_id", <<>>) # user_id

\* The caller's record written anew on every call.
update_user_record_replacing(users, user_id, username, email, body, t) ==
  Put(users, user_id,
      [user_id |-> user_id, email |-> email, username |-> username,
       created_at |-> t, updated_at |-> t, profile_complete |-> TRUE])

\* The users table after the get-or-update of the caller's record.
update_user_record(users, user_id, username, email, body, t) ==
  LET date_of_birth == Get(body, "date_of_birth", "")
      dob == IF date_of_birth # "" THEN [date_of_birth |-> date_of_birth] ELSE NoItem
  IN IF user_id \notin DOMAIN users
     THEN Put(users, user_id,
              Merge(dob, [user_id |-> user_id, email |-> email, username |-> username,
                          created_at |-> t, updated_at |-> t, profile_complete |-> TRUE]))
     ELSE Put(users, user_id,
              Merge(dob, Merge([username |-> username, updated_at |-> t, profile_complete |-> TRUE],
                               users[user_id])))

\* profile_image_url and avatar_key, with the key extracted from an S3 URL.
resolve_avatar(body, existing_item) ==
  LET from_body == IF Get(body, "profile_image_url", <<>>) # <<>>
                   THEN body["profile_image_url"] ELSE Get(body, "avatarUrl", <<>>)
      profile_image_url ==
        IF from_body # <<>> THEN from_body
        ELSE IF Get(existing_item, "profile_image_url", <<>>) # <<>>
             THEN existing_item["profile_image_url"]
             ELSE Get(existing_item, "avatar_url", <<>>)
      key0 == IF Get(body, "avatar_key", "") # "" THEN body["avatar_key"]
              ELSE Get(existing_item, "avatar_key", "")
      avatar_key == IF profile_image_url # <<>> /\ profile_image_url[1] = "s3" /\ key0 = ""
                    THEN profile_image_url[2] ELSE key0
  IN [profile_image_url |-> profile_image_url, avatar_key |-> avatar_key]

merge_social_links(body, existing_item) ==
  LET social_links_from_body == Get(body, "social_links", NoItem)
      existing_social_links == Get(existing_item, "social_links", NoItem)
  IN IF "social_links" \in DOMAIN body /\ DOMAIN social_links_from_body # {}
     THEN social_links_from_body
     ELSE IF DOMAIN existing_social_links # {} THEN existing_social_links ELSE NoItem

merge_skills(body, existing_item) ==
  IF "skills" \in DOMAIN body THEN body["skills"] ELSE Get(existing_item, "skills", <<>>)

merge_projects_from_body_only(body, existing_item) == Get(body, "projects", <<>>)

merge_projects(body, existing_item) ==
  LET projects_from_body == Get(body, "projects", <<>>)
      existing_projects == Get(existing_item, "projects", <<>>)
  IN IF "projects" \in DOMAIN body /\ Len(projects_from_body) > 0
     THEN projects_from_body
     ELSE IF Len(existing_projects) > 0 THEN existing_projects ELSE <<>>

scalar_field_unless_empty(body, existing_item, key, default) ==
  IF Get(body, key, default) # default THEN body[key] ELSE Get(existing_item, key, default)

\* body.get(key) if key in body else existing_item.get(key, default)
scalar_field(body, existing_item, key, default) ==
  IF key \in DOMAIN body THEN body[key] ELSE Get(existing_item, key, default)

\* body.get('full_name') or body.get('displayName') or existing_item.get('full_name', '')
merge_full_name(body, existing_item) ==
  IF Get(body, "full_name", <<>>) # <<>> THEN body["full_name"]
  ELSE IF Get(body, "displayName", <<>>) # <<>> THEN body["displayName"]
  ELSE Get(existing_item, "full_name", <<>>)

merge_favorite_color(body, existing_item) ==
  IF "favorite_color" \in DOMAIN body THEN body["favorite_color"]
  ELSE IF "favorite_color" \in DOMAIN existing_item THEN existing_item["favorite_color"]
  ELSE ""

\* The resume_key and resume_url attributes of the item to save.
resolve_resume(body, existing_item, t) ==
  LET resume_key_from_body == Get(body, "resume_key", "")
      resume_url_from_body == Get(body, "resume_url", <<>>)
      resume_key_to_use == IF resume_key_from_body # "" THEN resume_key_from_body
                           ELSE Get(existing_item, "resume_key", "")
      key_part == IF resume_key_to_use # "" THEN [resume_key |-> resume_key_to_use] ELSE NoItem
      generated_url == get_resume_url_from_key(resume_key_to_use, t)
      url_part ==
        IF resume_url_from_body # <<>> THEN [resume_url |-> resume_url_from_body]
        ELSE IF resume_key_to_use # ""
             THEN IF generated_url # <<>> THEN [resume_url |-> generated_url]
                  ELSE IF s3_bucket_name # "" THEN [resume_url |-> <<"s3", resume_key_to_use, 0>>]
                  ELSE IF "resume_url" \in DOMAIN existing_item
                       THEN [resume_url |-> existing_item["resume_url"]] ELSE NoItem
             ELSE IF "resume_url" \in DOMAIN existing_item
                  THEN [resume_url |-> existing_item["resume_url"]] ELSE NoItem
  IN Merge(key_part, url_part)

merge_date_of_birth(body, existing_item) ==
  IF Get(body, "date_of_birth", "") # "" THEN [date_of_birth |-> body["date_of_birth"]]
  ELSE IF "date_of_birth" \in DOMAIN existing_item
       THEN [date_of_birth |-> existing_item["date_of_birth"]] ELSE NoItem

profile_created_at_fresh(existing_item, t) == t

\* existing_item.get('created_at', now): kept from the stored item.
profile_created_at(existing_item, t) == Get(existing_item, "created_at", t)

\* The item put into the profiles table: the submitted body merged over the
\* item stored under the username (existing_item is {} when there is none).
build_profile_item(body, existing_item, user_id, t) ==
  LET avatar == resolve_avatar(body, existing_item)
      base ==
        [username |-> body["username"],
         user_id |-> user_id,
         full_name |-> merge_full_name(body, existing_item),
         title |-> scalar_field(body, existing_item, "title", ""),
         bio |-> scalar_field(body, existing_item, "bio", ""),
         skills |-> merge_skills(body, existing_item),
         social_links |-> merge_social_links(body, existing_item),
         projects |-> merge_projects(body, existing_item),
         avatar_key |-> avatar.avatar_key,
         avatar_url |-> avatar.profile_image_url,
         profile_image_url |-> avatar.profile_image_url,
         email |-> scalar_field(body, existing_item, "email", <<>>),
         phone |-> scalar_field(body, existing_item, "phone", ""),
         show_email |-> scalar_field(body, existing_item, "show_email", FALSE),
         show_phone |-> scalar_field(body, existing_item, "show_phone", FALSE),
         show_resume |-> scalar_field(body, existing_item, "show_resume", FALSE),
         updated_at |-> t,
         favorite_color |-> merge_favorite_color(body, existing_item),
         created_at |-> profile_created_at(existing_item, t)]
  IN Merge(base, Merge(resolve_resume(body, existing_item, t),
                       merge_date_of_birth(body, existing_item)))

GenericError == [error |-> "Internal server error", message |-> "An error occurred processing your request"]

\* The outcome of one POST /profiles on the given tables at clock value t.
\* in.fault names the store call that raises a ClientError, "none" for none.
create_or_update_profile_result(users, profiles, t, in) ==
  LET user_id == in.user_id
      body == in.body
      username == Get(body, "username", <<>>)
      same(code, b) == [users |-> users, profiles |-> profiles, tick |-> FALSE,
                        response |-> [statusCode |-> code, body |-> b]]
      users1 == update_user_record(users, user_id, username, in.email, body, t)
      existing_item == IF username \in DOMAIN profiles THEN profiles[username] ELSE NoItem
      profile_item == build_profile_item(body, existing_item, user_id, t)
  IN IF user_id = NoUser
       THEN same(401, [error |-> "Unauthorized", message |-> "No user_id found in JWT claims"])
     ELSE IF username = <<>>
       THEN same(400, [error |-> "username is required"])
     ELSE IF in.fault = "check_username"
       THEN same(500, GenericError)
     ELSE IF username_taken(profiles, username, user_id)
       THEN same(409, [error |-> "Username already taken"])
     ELSE IF in.fault \in {"get_user", "write_user"}
       THEN same(500, GenericError)
     ELSE IF in.fault = "get_existing_profile"
       THEN [users |-> users1, profiles |-> profiles, tick |-> TRUE,
             response |-> [statusCode |-> 500, body |-> GenericError]]
     ELSE IF in.fault = "put_profile"
       THEN [users |-> users1, profiles |-> profiles, tick |-> TRUE,
             response |-> [statusCode |-> 500,
                           body |-> [error |-> "Internal server error",
                                     message |-> "An error occurred saving your profile"]]]
     ELSE [users |-> users1, profiles |-> Put(profiles, username, profile_item), tick |-> TRUE,
           response |-> [statusCode |-> 200,
                         body |-> [message |-> "Profile saved successfully", profile |-> profile_item]]]

create_or_update_profile(Inputs, Bound) ==
  \E in \in Inputs :
    \E r \in {create_or_update_profile_result(users_table, profiles_table, now, in)} :
      /\ r.tick => now <= Bound
      /\ users_table' = r.users
      /\ profiles_table' = r.profiles
      /\ response' = r.response
      /\ request' = Merge([op |-> "POST /profiles"], in)
      /\ now' = IF r.tick THEN now + 1 ELSE now
      /\ UNCHANGED <<links_table, links, calls>>

\* POST /profiles as the sequence of its store calls, for invocations that
\* run concurrently. A call in flight is a record of its input, its position
\* pc and its local existing_item; put_at is the clock value of its put_item.
\* The get_item and the write of the caller's own users record are one step:
\* a caller has one invocation in flight, and no other invocation touches
\* that record.
in_flight(user_id) == user_id \in DOMAIN calls /\ calls[user_id].pc # "done"

\* The invocation starts: the token and the username are present.
upsert_begin(Inputs) ==
  \E in \in Inputs :
    /\ in.user_id # NoUser
    /\ Get(in.body, "username", <<>>) # <<>>
    /\ ~in_flight(in.user_id)
    /\ calls' = Put(calls, in.user_id,
                    [in |-> in, pc |-> "check_username", existing_item |-> NoItem, put_at |-> 0, statusCode |-> 0])
    /\ UNCHANGED <<users_table, profiles_table, links_table, now, request, response, links>>

returned(call, code, body) ==
  /\ calls' = Put(calls, call.in.user_id, Merge([pc |-> "done", statusCode |-> code], call))
  /\ request' = Merge([op |-> "POST /profiles"], call.in)
  /\ response' = [statusCode |-> code, body |-> body]

\* profiles_table.get_item for the uniqueness test.
upsert_check_username ==
  \E user_id \in DOMAIN calls :
    \E call \in {calls[user_id]} :
      /\ call.pc = "check_username"
      /\ IF call.in.fault = "check_username"
           THEN returned(call, 500, GenericError)
         ELSE IF username_taken(profiles_table, call.in.body.username, user_id)
           THEN returned(call, 409, [error |-> "Username already taken"])
         ELSE /\ calls' = Put(calls, user_id, Merge([pc |-> "update_user"], call))
              /\ UNCHANGED <<request, response>>
      /\ UNCHANGED <<users_table, profiles_table, links_table, now, links>>

\* users_table.get_item and put_item or update_item.
upsert_update_user(Bound) ==
  \E user_id \in DOMAIN calls :
    \E call \in {calls[user_id]} :
      /\ call.pc = "update_user"
      /\ IF call.in.fault \in {"get_user", "write_user"}
           THEN /\ returned(call, 500, GenericError)
                /\ UNCHANGED <<users_table, now>>
         ELSE /\ now <= Bound
              /\ users_table' = update_user_record(users_table, user_id, call.in.body.username,
                                                   call.in.email, call.in.body, now)
              /\ now' = now + 1
              /\ calls' = Put(calls, user_id, Merge([pc |-> "get_existing_profile"], call))
              /\ UNCHANGED <<request, response>>
      /\ UNCHANGED <<profiles_table, links_table, links>>

\* profiles_table.get_item for the fields to preserve.
upsert_get_existing_profile ==
  \E user_id \in DOMAIN calls :
    \E call \in {calls[user_id]} :
      /\ call.pc = "get_existing_profile"
      /\ IF call.in.fault = "get_existing_profile"
           THEN returned(call, 500, GenericError)
         ELSE /\ calls' = Put(calls, user_id,
                              Merge([pc |-> "put_profile",
                                     existing_item |-> IF call.in.body.username \in DOMAIN profiles_table
                                                       THEN profiles_table[call.in.body.username] ELSE NoItem],
                                    call))
              /\ UNCHANGED <<request, response>>
      /\ UNCHANGED <<users_table, profiles_table, links_table, now, links>>

\* A put_item that succeeds only when no item has the key.
put_profile_if_absent(profiles, username, profile_item) ==
  IF username \in DOMAIN profiles THEN profiles ELSE Put(profiles, username, profile_item)

\* profiles_table.put_item(Item=profile_item)
put_profile(profiles, username, profile_item) == Put(profiles, username, profile_item)

upsert_put_profile(Bound) ==
  \E user_id \in DOMAIN calls :
    \E call \in {calls[user_id]} :
      \E profile_item \in {build_profile_item(call.in.body, call.existing_item, user_id, now)} :
        /\ call.pc = "put_profile"
        /\ IF call.in.fault = "put_profile"
             THEN /\ returned(call, 500, [error |-> "Internal server error",
                                          message |-> "An error occurred saving your profile"])
                  /\ UNCHANGED <<profiles_table, now>>
           ELSE /\ now <= Bound
                /\ profiles_table' = put_profile(profiles_table, call.in.body.username, profile_item)
                /\ now' = now + 1
                /\ returned(Merge([put_at |-> now], call), 200,
                            [message |-> "Profile saved successfully", profile |-> profile_item])
        /\ UNCHANGED <<users_table, links_table, links>>

\* ------------------------------------------------- post-confirmation trigger
UpperCase ==
  [c \in {"A", "B", "C", "D", "E", "F", "G", "H", "I", "J", "K", "L", "M",
          "N", "O", "P", "Q", "R", "S", "T", "U", "V", "W", "X", "Y", "Z"} |->
     CASE c = "A" -> "a" [] c = "B" -> "b" [] c = "C" -> "c" [] c = "D" -> "d" [] c = "E" -> "e"
       [] c = "F" -> "f" [] c = "G" -> "g" [] c = "H" -> "h" [] c = "I" -> "i" [] c = "J" -> "j"
       [] c = "K" -> "k" [] c = "L" -> "l" [] c = "M" -> "m" [] c = "N" -> "n" [] c = "O" -> "o"
       [] c = "P" -> "p" [] c = "Q" -> "q" [] c = "R" -> "r" [] c = "S" -> "s" [] c = "T" -> "t"
       [] c = "U" -> "u" [] c = "V" -> "v" [] c = "W" -> "w" [] c = "X" -> "x" [] c = "Y" -> "y"
       [] c = "Z" -> "z"]

\* s.lower()
Lower(s) == [i \in 1..Len(s) |-> IF s[i] \in DOMAIN UpperCase THEN UpperCase[s[i]] ELSE s[i]]

RECURSIVE Strip(_)
\* s.strip()
Strip(s) ==
  IF s = <<>> THEN s
  ELSE IF s[1] = " " THEN Strip(Tail(s))
  ELSE IF s[Len(s)] = " " THEN Strip(SubSeq(s, 1, Len(s) - 1))
  ELSE s

\* The characters of [a-z0-9_-].
UsernameChars ==
  {"a", "b", "c", "d", "e", "f", "g", "h", "i", "j", "k", "l", "m",
   "n", "o", "p", "q", "r", "s", "t", "u", "v", "w", "x", "y", "z",
   "0", "1", "2", "3", "4", "5", "6", "7", "8", "9", "_", "-"}

UsernameMinLen == 3
UsernameMaxLen == 20
UserIdPrefixLen == 8

\* re.match(r'^[a-z0-9_-]{3,20}$', username)
matches_username_format(username) ==
  /\ Len(username) >= UsernameMinLen
  /\ Len(username) <= UsernameMaxLen
  /\ \A i \in 1..Len(username) : username[i] \in UsernameChars

\* re.sub(r'[^a-z0-9_-]', '', s)
sanitize(s) == SelectSeq(s, LAMBDA c : c \in UsernameChars)

\* email.split('@')[0]
local_part(email) ==
  IF \E i \in 1..Len(email) : email[i] = "@"
  THEN SubSeq(email, 1, (CHOOSE i \in 1..Len(email) : email[i] = "@" /\ \A j \in 1..(i - 1) : email[j] # "@") - 1)
  ELSE email

\* f"user_{user_id[:8]}"
safe_username(user_id) == <<"u", "s", "e", "r", "_">> \o Take(user_id, UserIdPrefixLen)

starts_with_user_(username) == Len(username) >= 5 /\ SubSeq(username, 1, 5) = <<"u", "s", "e", "r", "_">>

event_user_id(event) ==
  IF Get(event.userAttributes, "sub", <<>>) # <<>> THEN event.userAttributes["sub"] ELSE Get(event, "userName", <<>>)

event_email(event) == Strip(Get(event.userAttributes, "email", <<>>))

event_username(event) == Lower(Strip(Get(event.userAttributes, "custom:username", <<>>)))

is_social_login_never(event) == FALSE

\* is_social_login = not username
is_social_login(event) == event_username(event) = <<>>

derive_fullname(event) ==
  LET a == event.userAttributes
      custom == Strip(Get(a, "custom:fullname", <<>>))
      given_name == Strip(Get(a, "given_name", <<>>))
      family_name == Strip(Get(a, "family_name", <<>>))
      name == Strip(Get(a, "name", <<>>))
      email == event_email(event)
  IN IF custom # <<>> THEN custom
     ELSE IF name # <<>> THEN name
     ELSE IF given_name # <<>> \/ family_name # <<>> THEN Strip(given_name \o <<" ">> \o family_name)
     ELSE IF email # <<>> THEN local_part(email)
     ELSE <<"U", "s", "e", "r">>

\* The username after the social-login derivation and the format check.
derive_username(event) ==
  LET user_id == event_user_id(event)
      email == event_email(event)
      email_username == IF email # <<>> THEN local_part(email) ELSE <<>>
      temporary == Take(sanitize(Lower(email_username)), UsernameMaxLen)
      username == IF is_social_login(event)
                  THEN IF Len(temporary) < UsernameMinLen THEN safe_username(user_id) ELSE temporary
                  ELSE event_username(event)
  IN IF matches_username_format(username) THEN username ELSE safe_username(user_id)

derive_date_of_birth(event) ==
  IF is_social_login(event) THEN "" ELSE Get(event.userAttributes, "custom:date_of_birth", "")

\* The values the handler reads and derives from the event before it
\* touches a table.
event_attributes(event) ==
  [user_id |-> event_user_id(event),
   email |-> event_email(event),
   fullname |-> derive_fullname(event),
   username |-> derive_username(event),
   date_of_birth |-> derive_date_of_birth(event),
   picture |-> Get(event.userAttributes, "picture", ""),
   is_social_login |-> is_social_login(event)]

linked_ids_appended(existing_user, user_id) ==
  Get(existing_user, "cognito_user_ids", <<>>) \o <<Get(existing_user, "user_id", <<>>), user_id>>

\* cognito_user_ids after both ids are appended if absent.
linked_ids(existing_user, user_id) ==
  LET ids0 == Get(existing_user, "cognito_user_ids", <<>>)
      existing_user_id == Get(existing_user, "user_id", <<>>)
      ids1 == IF \E i \in 1..Len(ids0) : ids0[i] = existing_user_id THEN ids0 ELSE Append(ids0, existing_user_id)
  IN IF \E i \in 1..Len(ids1) : ids1[i] = user_id THEN ids1 ELSE Append(ids1, user_id)

\* The item put into the users table; a is event_attributes(event) and
\* existing_user is {} when the email query found none.
build_user_item(a, existing_user, t) ==
  LET found == existing_user # NoItem
      linking == found /\ Get(existing_user, "user_id", <<>>) # a.user_id
      base == [user_id |-> IF linking THEN existing_user["user_id"] ELSE a.user_id,
               email |-> a.email,
               fullname |-> IF found /\ Len(Get(existing_user, "fullname", <<>>)) > Len(a.fullname)
                            THEN existing_user["fullname"] ELSE a.fullname,
               username |-> IF found /\ (a.username = <<>> \/ starts_with_user_(a.username))
                            THEN Get(existing_user, "username", a.username) ELSE a.username,
               created_at |-> IF found THEN Get(existing_user, "created_at", t) ELSE t,
               updated_at |-> t,
               profile_complete |-> ~a.is_social_login]
      pic == IF a.picture # "" THEN [picture |-> a.picture] ELSE NoItem
      linked == IF linking THEN [cognito_user_ids |-> linked_ids(existing_user, a.user_id)] ELSE NoItem
      dob == IF a.date_of_birth # "" /\ (~found \/ Get(existing_user, "date_of_birth", "") = "")
             THEN [date_of_birth |-> a.date_of_birth] ELSE NoItem
  IN Merge(base, Merge(pic, Merge(linked, dob)))

final_user_id(a, existing_user) ==
  IF existing_user # NoItem /\ Get(existing_user, "user_id", <<>>) # a.user_id
  THEN existing_user["user_id"] ELSE a.user_id

\* The username of the profile item: the existing profile's, made unique
\* when another user's profile holds it (check is FALSE when the lookup raised).
profile_username(a, existing_user, existing_profile, profiles, check) ==
  LET username == IF Get(existing_profile, "username", <<>>) # <<>>
                  THEN existing_profile["username"] ELSE a.username
  IN IF check /\ username \in DOMAIN profiles
              /\ Get(profiles[username], "user_id", <<>>) # final_user_id(a, existing_user)
     THEN username \o <<"_">> \o Take(final_user_id(a, existing_user), UserIdPrefixLen)
     ELSE username

\* The item put into the profiles table for an email sign-up.
build_signup_profile_item(a, existing_user, existing_profile, username, t) ==
  LET found == existing_profile # NoItem
      base == [username |-> username,
               user_id |-> final_user_id(a, existing_user),
               email |-> a.email,
               full_name |-> IF found /\ Len(Get(existing_profile, "full_name", <<>>)) > Len(a.fullname)
                             THEN existing_profile["full_name"] ELSE a.fullname,
               created_at |-> IF found THEN Get(existing_profile, "created_at", t) ELSE t,
               updated_at |-> t]
      pic == IF a.picture # "" THEN [picture |-> a.picture] ELSE NoItem
      dob == IF a.date_of_birth # "" /\ (~found \/ Get(existing_profile, "date_of_birth", "") = "")
             THEN [date_of_birth |-> a.date_of_birth] ELSE NoItem
  IN Merge(base, Merge(pic, dob))

\* users_table.query(IndexName='email-index', email = ...): the matching items.
query_by_email(users, email) == {users[k] : k \in {x \in DOMAIN users : Get(users[x], "email", <<>>) = email}}

\* profiles_table.query(IndexName='user_id-index', user_id = ...): the matching items.
query_by_user_id(profiles, user_id) ==
  {profiles[k] : k \in {x \in DOMAIN profiles : Get(profiles[x], "user_id", <<>>) = user_id}}

\* Items[0] of a query: any one of the matching items, {} when the query
\* returned none or raised.
first_item(items, failed) == IF failed \/ items = {} THEN {NoItem} ELSE items

\* The tables after one post-confirmation event with attributes a; fault
\* names the store call that raises.  An event without email writes nothing.
post_confirmation_result(users, profiles, t, a, fault, existing_user, existing_profile) ==
  IF a.email = <<>>
  THEN [users |-> users, profiles |-> profiles, tick |-> FALSE]
  ELSE [users |-> IF fault = "put_user" THEN users
                  ELSE Put(users, final_user_id(a, existing_user), build_user_item(a, existing_user, t)),
        profiles |-> IF a.is_social_login \/ fault = "put_profile" THEN profiles
                     ELSE Put(profiles,
                              profile_username(a, existing_user, existing_profile, profiles, fault # "get_username"),
                              build_signup_profile_item(a, existing_user, existing_profile,
                                profile_username(a, existing_user, existing_profile, profiles,
                                                 fault # "get_username"), t)),
        tick |-> fault # "put_user" \/ ~(a.is_social_login \/ fault = "put_profile")]

confirmation_outcome_uncaught(fault) ==
  IF fault = "none" THEN [returned |-> "event"] ELSE [raised |-> fault]

\* What the handler hands back to Cognito: each store call sits in a try
\* whose except blocks log and continue, and the handler-wide except
\* returns the event as well.
confirmation_outcome(fault) == [returned |-> "event"]

\* The handler returns the event on every path.
post_confirmation_handler(Inputs, Bound) ==
  \E in \in Inputs :
    \E a \in {event_attributes(in.event)} :
      \E existing_user \in first_item(query_by_email(users_table, a.email), in.fault = "query_email") :
        \E existing_profile \in first_item(query_by_user_id(profiles_table, final_user_id(a, existing_user)),
                                           in.fault = "query_profile" \/ a.is_social_login) :
          \E r \in {post_confirmation_result(users_table, profiles_table, now, a, in.fault,
                                             existing_user, existing_profile)} :
            /\ r.tick => now <= Bound
            /\ users_table' = r.users
            /\ profiles_table' = r.profiles
            /\ response' = [statusCode |-> 0, body |-> confirmation_outcome(in.fault)]
            /\ request' = Merge([op |-> "PostConfirmation"], in)
            /\ now' = IF r.tick THEN now + 1 ELSE now
            /\ UNCHANGED <<links_table, links, calls>>

\* --------------------------------------------------- links: POST, DELETE /links
\* A link_id string is named by its rank in the byte order of the strings,
\* the order in which a DynamoDB Query returns the items of one user_id.
LinkIds == {1, 2}

\* The empty string, and a string of 101 characters that sorts after the others.
EmptyLinkId == 0
LongLinkId == 3
MaxLinkIdLen == 100
UuidLen == 36

\* len(link_id)
link_id_len(link_id) ==
  IF link_id = EmptyLinkId THEN 0 ELSE IF link_id = LongLinkId THEN MaxLinkIdLen + 1 ELSE UuidLen

HttpsUrl == <<"https://", "a.example">>
HttpUrl == <<"http://", "b.example">>
FtpUrl == <<"ftp://", "c.example">>

url_has_scheme(url) == url # <<>> /\ url[1] \in {"http://", "https://"}

\* The key of a record that has the link_id, whoever owns it.
link_key_of_any_owner(table, user_id, link_id) ==
  IF \E k \in DOMAIN table : k[2] = link_id
  THEN CHOOSE k \in DOMAIN table : k[2] = link_id /\ \A j \in DOMAIN table : j[2] = link_id => k[1] # user_id \/ j[1] = user_id
  ELSE <<user_id, link_id>>

\* Key={'user_id': user_id, 'link_id': link_id}
link_key(table, user_id, link_id) == <<user_id, link_id>>

\* created_at carried over from the stored record.
link_created_at_kept(table, key, t) ==
  IF key \notin DOMAIN table THEN [created_at |-> t]
  ELSE [k \in DOMAIN table[key] \cap {"created_at"} |-> table[key][k]]

\* link_item['created_at'] is set only when no record has the key.
link_created_at(table, key, t) == IF key \notin DOMAIN table THEN [created_at |-> t] ELSE NoItem

\* The outcome of one POST /links; link_id is the submitted id or the uuid4.
create_or_update_link_result(table, t, in, link_id) ==
  LET user_id == in.user_id
      body == in.body
      title == Get(body, "title", "")
      url == Get(body, "url", <<>>)
      order == Get(body, "order", 0)
      same(code, b) == [links |-> table, tick |-> FALSE, response |-> [statusCode |-> code, body |-> b]]
      key == link_key(table, user_id, link_id)
      created == link_created_at(table, key, t)
      link_item == Merge(created,
                         [user_id |-> user_id, link_id |-> link_id, title |-> title, url |-> url,
                          order |-> order, is_deleted |-> FALSE, updated_at |-> t])
  IN IF user_id = NoUser
       THEN same(401, [error |-> "Unauthorized", message |-> "No user_id found in JWT claims"])
     ELSE IF title = "" \/ url = <<>>
       THEN same(400, [error |-> "Validation error", message |-> "title and url are required"])
     ELSE IF ~url_has_scheme(url)
       THEN same(400, [error |-> "Validation error", message |-> "URL must start with http:// or https://"])
     ELSE IF in.fault = "get_link"
       THEN same(500, GenericError)
     ELSE IF in.fault = "put_link"
       THEN same(500, [error |-> "Internal server error", message |-> "An error occurred saving your link"])
     ELSE [links |-> Put(table, key, link_item), tick |-> TRUE,
           response |-> [statusCode |-> 200,
                         body |-> [message |-> "Link saved successfully", link |-> link_item]]]

create_or_update_link(Inputs, Bound) ==
  \E in \in Inputs :
    \E link_id \in IF Get(in.body, "link_id", EmptyLinkId) # EmptyLinkId THEN {in.body["link_id"]}
                   ELSE {l \in LinkIds : <<in.user_id, l>> \notin DOMAIN links_table} :
      \E r \in {create_or_update_link_result(links_table, now, in, link_id)} :
        /\ r.tick => now <= Bound
        /\ links_table' = r.links
        /\ response' = r.response
        /\ request' = Merge([op |-> "POST /links"], in)
        /\ now' = IF r.tick THEN now + 1 ELSE now
        /\ UNCHANGED <<users_table, profiles_table, links, calls>>

\* The outcome of one DELETE /links/{link_id}.
delete_link_result(table, t, in) ==
  LET user_id == in.user_id
      key == link_key(table, user_id, in.link_id)
      same(code, b) == [links |-> table, tick |-> FALSE, response |-> [statusCode |-> code, body |-> b]]
  IN IF user_id = NoUser
       THEN same(401, [error |-> "Unauthorized", message |-> "No user_id found in JWT claims"])
     ELSE IF link_id_len(in.link_id) = 0 \/ link_id_len(in.link_id) > MaxLinkIdLen
       THEN same(400, [error |-> "Validation error", message |-> "Invalid link ID"])
     ELSE IF in.fault = "get_link"
       THEN same(500, [error |-> "Internal server error", message |-> "An error occurred deleting your link"])
     ELSE IF key \notin DOMAIN table
       THEN same(404, [error |-> "Not found", message |-> "Link not found"])
     ELSE IF in.fault = "update_link"
       THEN same(500, [error |-> "Internal server error", message |-> "An error occurred deleting your link"])
     ELSE [links |-> Put(table, key, Merge([is_deleted |-> TRUE, updated_at |-> t], table[key])),
           tick |-> TRUE,
           response |-> [statusCode |-> 200, body |-> [message |-> "Link deleted successfully"]]]

delete_link(Inputs, Bound) ==
  \E in \in Inputs :
    \E r \in {delete_link_result(links_table, now, in)} :
      /\ r.tick => now <= Bound
      /\ links_table' = r.links
      /\ response' = r.response
      /\ request' = Merge([op |-> "DELETE /links/{id}"], in)
      /\ now' = IF r.tick THEN now + 1 ELSE now
      /\ UNCHANGED <<users_table, profiles_table, links, calls>>

\* ------------------------------------------- profiles: GET /profiles/{username}
RECURSIVE ascending(_)
\* The members of a finite set of numbers in ascending order.
ascending(S) ==
  IF S = {} THEN <<>>
  ELSE LET m == CHOOSE x \in S : \A y \in S : x <= y
       IN <<m>> \o ascending(S \ {m})

query_links_unfiltered(table, user_id) ==
  LET ids == {l \in LinkIds : <<user_id, l>> \in DOMAIN table}
  IN [i \in 1..Cardinality(ids) |-> table[<<user_id, ascending(ids)[i]>>]]

\* links_table.query(user_id = ..., is_deleted = false): the items of the
\* partition in sort-key order, the filter applied to them.
query_links(table, user_id) ==
  LET ids == {l \in LinkIds : <<user_id, l>> \in DOMAIN table}
      items == [i \in 1..Cardinality(ids) |-> table[<<user_id, ascending(ids)[i]>>]]
  IN SelectSeq(items, LAMBDA x : Get(x, "is_deleted", TRUE) = FALSE)

RECURSIVE sorted_by_order_unstable(_)
sorted_by_order_unstable(items) ==
  IF items = <<>> THEN <<>>
  ELSE LET n == Len(items)
           last == items[n]
           rest == sorted_by_order_unstable(SubSeq(items, 1, n - 1))
           before == SelectSeq(rest, LAMBDA x : Get(x, "order", 0) < Get(last, "order", 0))
           after == SelectSeq(rest, LAMBDA x : Get(x, "order", 0) >= Get(last, "order", 0))
       IN before \o <<last>> \o after

RECURSIVE sorted_by_order(_)
\* sorted(items, key=lambda x: x.get('order', 0)): a stable sort.
sorted_by_order(items) ==
  IF items = <<>> THEN <<>>
  ELSE LET n == Len(items)
           last == items[n]
           rest == sorted_by_order(SubSeq(items, 1, n - 1))
           before == SelectSeq(rest, LAMBDA x : Get(x, "order", 0) <= Get(last, "order", 0))
           after == SelectSeq(rest, LAMBDA x : Get(x, "order", 0) > Get(last, "order", 0))
       IN before \o <<last>> \o after

is_owner(requester_user_id, profile) ==
  /\ requester_user_id # NoUser
  /\ requester_user_id = Get(profile, "user_id", <<>>)

contact_info_for_anyone(profile, owner) ==
  LET email == IF Get(profile, "email", <<>>) # <<>> THEN [email |-> profile["email"]] ELSE NoItem
      phone == IF Get(profile, "phone", "") # "" THEN [phone |-> profile["phone"]] ELSE NoItem
  IN Merge(email, phone)

\* The email and phone keys of the projection.
contact_info(profile, owner) ==
  LET email == IF owner
               THEN IF Get(profile, "email", <<>>) # <<>> THEN [email |-> profile["email"]] ELSE NoItem
               ELSE IF Get(profile, "show_email", FALSE) THEN [email |-> Get(profile, "email", <<>>)] ELSE NoItem
      phone == IF owner
               THEN IF Get(profile, "phone", "") # "" THEN [phone |-> profile["phone"]] ELSE NoItem
               ELSE IF Get(profile, "show_phone", FALSE) THEN [phone |-> Get(profile, "phone", "")] ELSE NoItem
  IN Merge(email, phone)

\* _get_resume_url(profile)
get_resume_url(profile, t) ==
  LET resume_url == Get(profile, "resume_url", <<>>)
      resume_key == Get(profile, "resume_key", "")
      new_url == get_resume_url_from_key(resume_key, t)
  IN IF resume_url # <<>> /\ resume_url[1] = "s3" /\ resume_url[3] = 0
       THEN IF resume_key # "" /\ new_url # <<>> THEN new_url ELSE resume_url
     ELSE IF resume_url # <<>> THEN resume_url
     ELSE IF resume_key # "" /\ new_url # <<>> THEN new_url
     ELSE <<>>

\* The avatar_url of the projection, presigned from the key where needed.
public_avatar_url(profile, t) ==
  LET stored == IF Get(profile, "avatar_url", <<>>) # <<>> THEN profile["avatar_url"]
                ELSE Get(profile, "profile_image_url", <<>>)
      avatar_key == Get(profile, "avatar_key", "")
      presigned == IF avatar_key = "" \/ s3_bucket_name = "" THEN <<>> ELSE <<"s3", avatar_key, t>>
  IN IF stored # <<>> /\ stored[1] = "s3" /\ stored[3] = 0
       THEN IF avatar_key # "" /\ presigned # <<>> THEN presigned ELSE stored
     ELSE IF stored = <<>> /\ avatar_key # "" THEN presigned
     ELSE stored

public_links(sorted) == [i \in 1..Len(sorted) |-> [title |-> Get(sorted[i], "title", ""), url |-> Get(sorted[i], "url", <<>>)]]

\* The public_profile dict built from a stored item and the sorted links.
public_profile(profile, sorted, owner, t) ==
  LET avatar_url == public_avatar_url(profile, t)
      base ==
        [username |-> profile["username"],
         full_name |-> Get(profile, "full_name", <<>>),
         title |-> Get(profile, "title", ""),
         bio |-> Get(profile, "bio", ""),
         skills |-> Get(profile, "skills", <<>>),
         social_links |-> Get(profile, "social_links", NoItem),
         projects |-> Get(profile, "projects", <<>>),
         profile_image_url |-> avatar_url,
         avatar_url |-> avatar_url,
         links |-> public_links(sorted),
         resume_url |-> get_resume_url(profile, t),
         show_email |-> Get(profile, "show_email", FALSE),
         show_phone |-> Get(profile, "show_phone", FALSE),
         show_resume |-> Get(profile, "show_resume", FALSE),
         favorite_color |-> Get(profile, "favorite_color", "")]
      resume_key == IF Get(profile, "show_resume", FALSE) /\ Get(profile, "resume_key", "") # ""
                    THEN [resume_key |-> profile["resume_key"]] ELSE NoItem
  IN Merge(base, Merge(contact_info(profile, owner), resume_key))

get_public_profile(Inputs) ==
  \E in \in Inputs :
    /\ request' = Merge([op |-> "GET /profiles/{username}"], in)
    /\ IF in.fault = "get_profile"
         THEN /\ response' = [statusCode |-> 500,
                              body |-> [error |-> "Internal server error",
                                        message |-> "An error occurred retrieving the profile"]]
              /\ links' = <<>>
       ELSE IF in.username \notin DOMAIN profiles_table
         THEN /\ response' = [statusCode |-> 404, body |-> [error |-> "Profile not found"]]
              /\ links' = <<>>
       ELSE \E profile \in {profiles_table[in.username]} :
              \E fetched \in {IF in.fault = "query_links" THEN <<>>
                               ELSE sorted_by_order(query_links(links_table, Get(profile, "user_id", <<>>)))} :
                /\ links' = fetched
                /\ response' = [statusCode |-> 200,
                                body |-> public_profile(profile, fetched, is_owner(in.user_id, profile), now)]
    /\ UNCHANGED <<users_table, profiles_table, links_table, now, calls>>

\* ------------------------------------------------------ pre-sign-up trigger
\* Exception messages, cut where the handlers test them.
AlreadyExists == "An account with this email already exists"
UnverifiedEmail == <<"Email address must be verified by the identity provider.">>
DuplicateForSocial == <<AlreadyExists, ". Please sign in with your email and password instead.">>
DuplicateForEmail == <<AlreadyExists, ". Please sign in with your social account instead.">>
ListUsersFailed == <<"list_users failed">>

\* The trigger sources Cognito sends to a pre sign-up trigger.
TriggerSources == {"PreSignUp_SignUp", "PreSignUp_ExternalProvider", "PreSignUp_AdminCreateUser"}

\* 'ExternalProvider' in trigger_source or 'Google' in ... or 'LinkedIn' in ...
is_social_signup(trigger_source) == trigger_source = "PreSignUp_ExternalProvider"

\* user_attributes.get('email', '').strip().lower()
pre_signup_email(event) == Lower(Strip(Get(event.userAttributes, "email", <<>>)))

never_reraised(message) == FALSE

\* "An account with this email already exists" in str(e)
is_intentional_rejection(message) == \E i \in 1..Len(message) : message[i] = AlreadyExists

\* An except block of the handler: re-raise the intentional rejection,
\* return the event on every other exception.
reraise_or_allow(message) ==
  IF is_intentional_rejection(message) THEN [raised |-> message] ELSE [returned |-> "event"]

\* The handler reaches cognito_client.list_users.
reaches_lookup(event) ==
  /\ event.userPoolId # ""
  /\ pre_signup_email(event) # <<>>
  /\ ~(is_social_signup(event.triggerSource) /\ Get(event.userAttributes, "email_verified", "false") # "true")

\* What one pre sign-up invocation does: it returns the event (sign-up
\* allowed) or raises (sign-up rejected).  in.listed is the Users list that
\* list_users answers; in.fault is "client_error" when list_users raises a
\* ClientError and "error" when it raises another exception.
pre_signup_result(in) ==
  LET event == in.event
      social == is_social_signup(event.triggerSource)
  IN IF event.userPoolId = "" THEN [returned |-> "event"]
     ELSE IF pre_signup_email(event) = <<>> THEN [returned |-> "event"]
     ELSE IF social /\ Get(event.userAttributes, "email_verified", "false") # "true"
       THEN reraise_or_allow(UnverifiedEmail)
     ELSE IF in.fault = "client_error" THEN [returned |-> "event"]
     ELSE IF in.fault = "error" THEN reraise_or_allow(ListUsersFailed)
     ELSE IF Len(in.listed) > 0
       THEN IF is_intentional_rejection(IF social THEN DuplicateForSocial ELSE DuplicateForEmail)
            THEN reraise_or_allow(IF social THEN DuplicateForSocial ELSE DuplicateForEmail)
            ELSE [returned |-> "event"]
     ELSE [returned |-> "event"]

pre_signup_handler(Inputs) ==
  \E in \in Inputs :
    /\ request' = Merge([op |-> "PreSignUp"], in)
    /\ response' = [statusCode |-> 0, body |-> pre_signup_result(in)]
    /\ UNCHANGED <<users_table, profiles_table, links_table, now, links, calls>>

\* ------------------------------------------- profiles: GET /users/me, /username/check
\* str(e) of the exception a store call raises: a botocore ClientError or
\* any other exception (a connection or time-out error).
ClientErrorDetail == "An error occurred (ProvisionedThroughputExceededException) when calling the GetItem operation"
OtherErrorDetail == "Could not connect to the endpoint URL"

error_detail(fault) == IF fault = "client_error" THEN ClientErrorDetail ELSE OtherErrorDetail

\* The fields of the users record that GET /users/me returns; a None value
\* (JSON null) is a key left out.
current_user_result(user_item) ==
  Merge([k \in DOMAIN user_item \cap {"user_id", "username", "email", "date_of_birth", "fullname"} |-> user_item[k]],
        [profile_complete |-> Get(user_item, "profile_complete", FALSE)])

get_current_user_profile(Inputs) ==
  \E in \in Inputs :
    /\ request' = Merge([op |-> "GET /users/me"], in)
    /\ response' =
         IF in.user_id = NoUser
           THEN [statusCode |-> 401, body |-> [error |-> "Unauthorized", message |-> "No user_id found in JWT claims"]]
         ELSE IF in.fault = "client_error"
           THEN [statusCode |-> 500,
                 body |-> [error |-> "Internal server error", message |-> "An error occurred retrieving your profile"]]
         ELSE IF in.fault = "error"
           THEN [statusCode |-> 500, body |-> [error |-> "Internal server error: " \o error_detail(in.fault)]]
         ELSE IF in.user_id \notin DOMAIN users_table
           THEN [statusCode |-> 404, body |-> [error |-> "User not found", profile_complete |-> FALSE]]
         ELSE [statusCode |-> 200, body |-> current_user_result(users_table[in.user_id])]
    /\ UNCHANGED <<users_table, profiles_table, links_table, now, links, calls>>

\* query_params.get('username', '').strip().lower()
checked_username(params) == Lower(Strip(Get(params, "username", <<>>)))

\* 'Item' in response
available_when_stored(profiles, username) == username \in DOMAIN profiles

\* 'Item' not in response
username_available(profiles, username) == username \notin DOMAIN profiles

check_username_availability_result(profiles, in) ==
  LET username == checked_username(in.params)
  IN IF username = <<>>
       THEN [statusCode |-> 400, body |-> [error |-> "Username parameter is required"]]
     ELSE IF ~matches_username_format(username)
       THEN [statusCode |-> 400,
             body |-> [available |-> FALSE,
                       error |-> "Username must be 3-20 characters and contain only letters, numbers, underscores, and hyphens"]]
     ELSE IF in.fault # "none"
       THEN [statusCode |-> 500, body |-> [error |-> "Database error", message |-> error_detail(in.fault)]]
     ELSE [statusCode |-> 200,
           body |-> [available |-> username_available(profiles, username), username |-> username]]

check_username_availability(Inputs) ==
  \E in \in Inputs :
    /\ request' = Merge([op |-> "GET /username/check"], in)
    /\ response' = check_username_availability_result(profiles_table, in)
    /\ UNCHANGED <<users_table, profiles_table, links_table, now, links, calls>>

\* ------------------------------------------------------------ specifications
ProfileFaults == {"check_username", "get_user", "write_user", "get_existing_profile", "put_profile"}

\* Requests of the profile specification: the first caller with every
\* username and body, a second caller with the plain and one filled body, a
\* request without token, one without username, and every fault on the plain
\* request.
ProfileInputs ==
  { [user_id |-> U1, email |-> E1, body |-> Merge([username |-> h], b), fault |-> "none"] :
      h \in {BOB, AMY}, b \in ProfileBodies }
  \cup { [user_id |-> U2, email |-> E1, body |-> Merge([username |-> h], b), fault |-> "none"] :
           h \in {BOB, AMY}, b \in {B0, B1} }
  \cup { [user_id |-> NoUser, email |-> E1, body |-> [username |-> BOB], fault |-> "none"] }
  \cup { [user_id |-> U1, email |-> E1, body |-> NoItem, fault |-> "none"] }
  \cup { [user_id |-> U1, email |-> E1, body |-> [username |-> BOB], fault |-> f] : f \in ProfileFaults }

Init ==
  /\ users_table = NoItem
  /\ profiles_table = NoItem
  /\ links_table = NoItem
  /\ now = 1
  /\ request = [op |-> "none"]
  /\ response = [statusCode |-> 0, body |-> NoItem]
  /\ links = <<>>
  /\ calls = NoItem

ProjectionInputs ==
  { [username |-> h, user_id |-> u, fault |-> "none"] : h \in {BOB, AMY}, u \in {U1, U2, NoUser} }
  \cup { [username |-> BOB, user_id |-> NoUser, fault |-> f] : f \in {"get_profile", "query_links"} }

\* userAttributes of a Google sign-in, of a sign-in that carries only the
\* email, and of an email sign-up with custom:username "Bob".
SocialAttributes == [name |-> AL_SM, picture |-> "https://pic.example/al"]
BareAttributes == NoItem
DirectAttributes ==
  ("custom:username" :> <<"B", "o", "b">>) @@ ("custom:fullname" :> AL) @@ ("custom:date_of_birth" :> "2000-01-01")

SignupEvent(user_id, email, attributes) ==
  [userName |-> user_id, userAttributes |-> Merge([sub |-> user_id, email |-> email], attributes)]

SignupFaults == {"query_email", "put_user", "query_profile", "get_username", "put_profile"}

\* U1 and U2 are two identities of the holder of E1; U2 is also seen with E2.
SignupInputs ==
  { [event |-> SignupEvent(ue[1], ue[2], a), fault |-> "none"] :
      ue \in {<<U1, E1>>, <<U2, E1>>, <<U2, E2>>}, a \in {SocialAttributes, DirectAttributes} }
  \cup { [event |-> SignupEvent(U1, E1, BareAttributes), fault |-> "none"] }
  \cup { [event |-> SignupEvent(U1, <<>>, SocialAttributes), fault |-> "none"] }
  \cup { [event |-> SignupEvent(U2, E1, DirectAttributes), fault |-> f] : f \in SignupFaults }

\* Profile completions after sign-in: the JWT carries the identity's email.
CompletionInputs ==
  { [user_id |-> u, email |-> e, body |-> [username |-> h], fault |-> "none"] :
      u \in {U1, U2}, e \in {E1}, h \in {BOB, AMY} }
  \cup { [user_id |-> U1, email |-> E1, body |-> [username |-> BOB, date_of_birth |-> "1999-09-09"],
           fault |-> "none"] }

NextSignup ==
  \/ post_confirmation_handler(SignupInputs, MaxSignupWrites)
  \/ create_or_update_profile(CompletionInputs, MaxSignupWrites)

SpecSignup == Init /\ [][NextSignup]_vars

\* The link specification: U1 owns the profile BOB; U1 and U2 save and delete links.
LinkOwnerInputs == { [user_id |-> U1, email |-> E1, body |-> [username |-> BOB], fault |-> "none"] }

LinkBody(link_id, order) == [link_id |-> link_id, title |-> "Blog", url |-> HttpsUrl, order |-> order]

LinkInputs ==
  { [user_id |-> U1, body |-> LinkBody(lo[1], lo[2]), fault |-> "none"] : lo \in {<<1, 1>>, <<1, 2>>, <<2, 1>>} }
  \cup { [user_id |-> U2, body |-> [link_id |-> 1, title |-> "Shop", url |-> HttpUrl, order |-> 1], fault |-> "none"],
          [user_id |-> U1, body |-> [title |-> "Talk", url |-> HttpsUrl], fault |-> "none"],
          [user_id |-> NoUser, body |-> LinkBody(1, 1), fault |-> "none"],
          [user_id |-> U1, body |-> [link_id |-> 1, title |-> "", url |-> HttpsUrl], fault |-> "none"],
          [user_id |-> U1, body |-> [link_id |-> 1, title |-> "Blog", url |-> FtpUrl], fault |-> "none"],
          [user_id |-> U1, body |-> LinkBody(1, 1), fault |-> "get_link"],
          [user_id |-> U1, body |-> LinkBody(1, 1), fault |-> "put_link"] }

DeleteInputs ==
  { [user_id |-> U1, link_id |-> l, fault |-> "none"] : l \in LinkIds }
  \cup { [user_id |-> U2, link_id |-> 1, fault |-> "none"],
          [user_id |-> NoUser, link_id |-> 1, fault |-> "none"],
          [user_id |-> U1, link_id |-> 1, fault |-> "get_link"],
          [user_id |-> U1, link_id |-> 1, fault |-> "update_link"] }

LinkProjectionInputs ==
  { [username |-> BOB, user_id |-> u, fault |-> "none"] : u \in {U2, NoUser} }
  \cup { [username |-> BOB, user_id |-> NoUser, fault |-> "query_links"] }

NextLinks ==
  \/ create_or_update_profile(LinkOwnerInputs, MaxLinkWrites)
  \/ create_or_update_link(LinkInputs, MaxLinkWrites)
  \/ delete_link(DeleteInputs, MaxLinkWrites)
  \/ get_public_profile(LinkProjectionInputs)

SpecLinks == Init /\ [][NextLinks]_vars

\* The pre-sign-up specification: every trigger source, email, verification
\* claim and pool id, against every answer of list_users.
DirectIdentity == [Username |-> "al", status |-> "CONFIRMED"]
SocialIdentity == [Username |-> "Google_1", status |-> "EXTERNAL_PROVIDER"]

PreSignupEvent(trigger_source, pool, email, verified) ==
  [triggerSource |-> trigger_source, userPoolId |-> pool, userAttributes |-> Merge(email, verified)]

VerifiedClaims == {[email_verified |-> "true"], [email_verified |-> "false"], NoItem}

PreSignupInputs ==
  { [event |-> PreSignupEvent(ts, pool, email, verified), listed |-> l, fault |-> "none"] :
      ts \in TriggerSources, pool \in {"pool-1", ""},
      email \in {[email |-> E1], [email |-> <<" ", "A", "l", "@", "x">>], NoItem},
      verified \in VerifiedClaims,
      l \in {<<>>, <<DirectIdentity>>, <<SocialIdentity>>, <<SocialIdentity, DirectIdentity>>} }
  \cup { [event |-> PreSignupEvent(ts, "pool-1", [email |-> E1], verified), listed |-> <<>>, fault |-> f] :
           ts \in TriggerSources, verified \in VerifiedClaims, f \in {"client_error", "error"} }

NextPreSignup == pre_signup_handler(PreSignupInputs)

SpecPreSignup == Init /\ [][NextPreSignup]_vars

\* The handle specification: two callers save profiles under well-formed and
\* malformed usernames, and read their account and the availability of names.
AB == <<"a", "b">>
B_B == <<"b", "!", "b">>
PaddedBob == <<" ", "B", "o", "b", " ">>
ValidName1 == <<"v", "a", "l", "i", "d", "_", "n", "a", "m", "e", "-", "1">>
TooLong == [i \in 1..(UsernameMaxLen + 1) |-> "a"]

HandleInputs ==
  { [user_id |-> U1, email |-> E1, body |-> [username |-> h], fault |-> "none"] : h \in {BOB, AB, B_B} }
  \cup { [user_id |-> U2, email |-> E2, body |-> [username |-> h], fault |-> "none"] : h \in {BOB, ValidName1} }
  \cup { [user_id |-> U1, email |-> E1, body |-> NoItem, fault |-> "none"] }

CurrentUserInputs ==
  { [user_id |-> u, fault |-> "none"] : u \in {U1, U2, NoUser} }
  \cup { [user_id |-> U1, fault |-> f] : f \in {"client_error", "error"} }

CheckInputs ==
  { [params |-> [username |-> h], fault |-> "none"] : h \in {BOB, AB, B_B, PaddedBob, ValidName1, TooLong} }
  \cup { [params |-> NoItem, fault |-> "none"] }
  \cup { [params |-> [username |-> BOB], fault |-> f] : f \in {"client_error", "error"} }

NextHandles ==
  \/ create_or_update_profile(HandleInputs, MaxProfileWrites)
  \/ get_current_user_profile(CurrentUserInputs)
  \/ check_username_availability(CheckInputs)

SpecHandles == Init /\ [][NextHandles]_vars

\* The link store specification: two callers save and delete links under
\* generated, chosen, shared, empty and over-long link ids.
StoreLinkInputs ==
  { [user_id |-> u, body |-> LinkBody(l, 1), fault |-> "none"] : u \in {U1, U2}, l \in {1, LongLinkId} }
  \cup { [user_id |-> U1, body |-> [title |-> "Talk", url |-> HttpsUrl], fault |-> "none"],
          [user_id |-> U1, body |-> LinkBody(EmptyLinkId, 1), fault |-> "none"],
          [user_id |-> U1, body |-> LinkBody(1, 1), fault |-> "put_link"] }

StoreDeleteInputs ==
  { [user_id |-> u, link_id |-> l, fault |-> "none"] : u \in {U1, U2}, l \in {1, 2, LongLinkId} }
  \cup { [user_id |-> U1, link_id |-> EmptyLinkId, fault |-> "none"],
          [user_id |-> NoUser, link_id |-> 1, fault |-> "none"],
          [user_id |-> U1, link_id |-> 1, fault |-> "get_link"],
          [user_id |-> U1, link_id |-> 1, fault |-> "update_link"] }

NextLinkStore ==
  \/ create_or_update_link(StoreLinkInputs, MaxLinkWrites)
  \/ delete_link(StoreDeleteInputs, MaxLinkWrites)

SpecLinkStore == Init /\ [][NextLinkStore]_vars

\* The race specification: two accounts save profiles concurrently.
RaceInputs ==
  { [user_id |-> u, email |-> E1, body |-> [username |-> h], fault |-> "none"] : u \in {U1, U2}, h \in {BOB, AMY} }
  \cup { [user_id |-> U1, email |-> E1, body |-> [username |-> BOB], fault |-> f] : f \in ProfileFaults }

NextRace ==
  \/ upsert_begin(RaceInputs)
  \/ upsert_check_username
  \/ upsert_update_user(MaxRaceWrites)
  \/ upsert_get_existing_profile
  \/ upsert_put_profile(MaxRaceWrites)

SpecRace == Init /\ [][NextRace]_vars

Next ==
  \/ create_or_update_profile(ProfileInputs, MaxProfileWrites)
  \/ get_public_profile(ProjectionInputs)

Spec == Init /\ [][Next]_vars

\* ---------------------------------------------------------------- properties
IsUpsert(req) == req.op = "POST /profiles"

IsProjection(req) == req.op = "GET /profiles/{username}"

\* A POST /profiles that was answered 200 for a username already stored.
UpdatesExisting ==
  /\ IsUpsert(request')
  /\ response'.statusCode = 200
  /\ request'.body["username"] \in DOMAIN profiles_table

\* C1: a POST /profiles by a resolved caller for a username whose stored
\* profile belongs to another user_id is answered 409 (500 when the lookup
\* itself raises) and leaves the users and the profiles table as they were.
C1_HandleConflict ==
  [][(/\ IsUpsert(request')
      /\ request'.user_id # NoUser
      /\ Get(request'.body, "username", <<>>) \in DOMAIN profiles_table
      /\ Get(profiles_table[request'.body["username"]], "user_id", <<>>) # request'.user_id)
     => (/\ response'.statusCode = IF request'.fault = "check_username" THEN 500 ELSE 409
         /\ users_table' = users_table
         /\ profiles_table' = profiles_table)]_vars

C1_Witness ==
  /\ IsUpsert(request)
  /\ response.statusCode = 409
  /\ request.body["username"] \in DOMAIN profiles_table
  /\ profiles_table[request.body["username"]]["user_id"] \notin {request.user_id, NoUser}

\* C2: no two records of the users table carry the same email.
C2_OneAccountPerEmail ==
  \A a \in DOMAIN users_table : \A b \in DOMAIN users_table :
    a # b => Get(users_table[a], "email", <<>>) # Get(users_table[b], "email", <<>>)

LinkedIds(user) == {Get(user, "cognito_user_ids", <<>>)[i] : i \in 1..Len(Get(user, "cognito_user_ids", <<>>))}

\* C3: every id in the cognito_user_ids of a users record before a step is
\* in the cognito_user_ids of that record after the step.
C3_LinkedIdsGrowOnly ==
  [][\A a \in DOMAIN users_table :
       /\ a \in DOMAIN users_table'
       /\ LinkedIds(users_table[a]) \subseteq LinkedIds(users_table'[a])]_vars

\* C4: no two records of the profiles table have the same user_id.
C4_OneProfilePerAccount ==
  \A g \in DOMAIN profiles_table : \A h \in DOMAIN profiles_table :
    g # h => Get(profiles_table[g], "user_id", <<>>) # Get(profiles_table[h], "user_id", <<>>)

ProjectedProfile == profiles_table[request.username]

RequesterIsOwner == request.user_id # NoUser /\ request.user_id = Get(ProjectedProfile, "user_id", <<>>)

\* C5: in a 200 answer of GET /profiles/{username}, a requester who is not the
\* owner gets email only when show_email is true and phone only when
\* show_phone is true; the owner gets the stored email and phone whenever
\* they are non-empty, whatever the flags.
C5_ContactGating ==
  (IsProjection(request) /\ response.statusCode = 200) =>
    LET p == ProjectedProfile
        b == response.body
    IN /\ ~RequesterIsOwner =>
            /\ "email" \in DOMAIN b => Get(p, "show_email", FALSE) = TRUE
            /\ "phone" \in DOMAIN b => Get(p, "show_phone", FALSE) = TRUE
       /\ RequesterIsOwner =>
            /\ Get(p, "email", <<>>) # <<>> => ("email" \in DOMAIN b /\ b["email"] = p["email"])
            /\ Get(p, "phone", "") # "" => ("phone" \in DOMAIN b /\ b["phone"] = p["phone"])

C5_Witness ==
  /\ IsProjection(request)
  /\ response.statusCode = 200
  /\ RequesterIsOwner
  /\ Get(ProjectedProfile, "show_email", FALSE) = FALSE
  /\ Get(ProjectedProfile, "email", <<>>) # <<>>
  /\ "email" \in DOMAIN response.body

OwnerLinkKeys == {k \in DOMAIN links_table : k[1] = Get(ProjectedProfile, "user_id", <<>>)}

\* C6: in a 200 answer of GET /profiles/{username}, every link the handler
\* fetched is a stored link of the owner whose is_deleted is false, and the
\* answer lists exactly those links, each with the keys title and url only.
C6_NoDeletedLinks ==
  (IsProjection(request) /\ response.statusCode = 200) =>
    /\ \A i \in 1..Len(links) :
         /\ <<links[i]["user_id"], links[i]["link_id"]>> \in OwnerLinkKeys
         /\ links_table[<<links[i]["user_id"], links[i]["link_id"]>>] = links[i]
         /\ links[i]["is_deleted"] = FALSE
    /\ Len(response.body["links"]) = Len(links)
    /\ \A i \in 1..Len(links) :
         /\ DOMAIN response.body["links"][i] = {"title", "url"}
         /\ response.body["links"][i]["title"] = links[i]["title"]
         /\ response.body["links"][i]["url"] = links[i]["url"]

C6_Witness ==
  /\ IsProjection(request)
  /\ response.statusCode = 200
  /\ Len(response.body["links"]) = 1
  /\ \E k \in OwnerLinkKeys : links_table[k]["is_deleted"] = TRUE

\* The fetched links are all the owner's stored links that are not deleted.
FetchedAllLive ==
  {<<links[i]["user_id"], links[i]["link_id"]>> : i \in 1..Len(links)}
    = {k \in OwnerLinkKeys : links_table[k]["is_deleted"] = FALSE}

ProjectionWithLinks ==
  IsProjection(request) /\ response.statusCode = 200 /\ request.fault = "none"

\* C7 as stated: the projection lists the owner's live links ascending by
\* order, links of equal order in the order they were first saved.
C7_TiesInInsertionOrder ==
  ProjectionWithLinks =>
    /\ FetchedAllLive
    /\ \A i \in 1..Len(links) : \A j \in 1..Len(links) :
         i < j =>
           /\ links[i]["order"] <= links[j]["order"]
           /\ (links[i]["order"] = links[j]["order"]
               /\ "created_at" \in DOMAIN links[i] /\ "created_at" \in DOMAIN links[j])
              => links[i]["created_at"] <= links[j]["created_at"]

\* C7 amended: the projection lists the owner's live links ascending by
\* order, links of equal order in the order of the query result, which is
\* ascending link_id; the answer lists them in that sequence.
C7_TiesInQueryOrder ==
  ProjectionWithLinks =>
    /\ FetchedAllLive
    /\ Len(response.body["links"]) = Len(links)
    /\ \A i \in 1..Len(links) : \A j \in 1..Len(links) :
         i < j =>
           \/ links[i]["order"] < links[j]["order"]
           \/ links[i]["order"] = links[j]["order"] /\ links[i]["link_id"] < links[j]["link_id"]

C7_Witness ==
  /\ ProjectionWithLinks
  /\ Len(links) = 2
  /\ links[1]["order"] = links[2]["order"]
  /\ "created_at" \in DOMAIN links[1] /\ "created_at" \in DOMAIN links[2]
  /\ links[1]["created_at"] > links[2]["created_at"]

\* The step repeats the previous POST /profiles, and both were answered 200.
RepeatsUpsert ==
  /\ IsUpsert(request')
  /\ request' = request
  /\ response.statusCode = 200
  /\ response'.statusCode = 200

\* C8 as stated: the repeated call leaves the stored profile and the users
\* record equal to those after the first call in every attribute but updated_at.
C8_IdempotentButUpdatedAt ==
  [][RepeatsUpsert =>
       LET h == request.body["username"]
           u == request.user_id
       IN /\ Without(profiles_table'[h], {"updated_at"}) = Without(profiles_table[h], {"updated_at"})
          /\ Without(users_table'[u], {"updated_at"}) = Without(users_table[u], {"updated_at"})]_vars

\* C8 amended: equal in every attribute but updated_at and resume_url, and
\* resume_url differs only when it is presigned from a known resume_key
\* because the body carries no resume_url of its own.
C8_IdempotentButDerivedUrl ==
  [][RepeatsUpsert =>
       LET h == request.body["username"]
           u == request.user_id
           before == profiles_table[h]
           after == profiles_table'[h]
       IN /\ Without(after, {"updated_at", "resume_url"}) = Without(before, {"updated_at", "resume_url"})
          /\ after["created_at"] = before["created_at"]
          /\ ("resume_url" \in DOMAIN after) = ("resume_url" \in DOMAIN before)
          /\ Get(after, "resume_url", <<>>) # Get(before, "resume_url", <<>>) =>
               /\ Get(request.body, "resume_url", <<>>) = <<>>
               /\ Get(after, "resume_key", "") # ""
               /\ after["resume_url"] = <<"s3", after["resume_key"], after["updated_at"]>>
          /\ Without(users_table'[u], {"updated_at"}) = Without(users_table[u], {"updated_at"})]_vars

\* The tables hold what the last request writes when sent twice to empty tables.
C8_Witness ==
  /\ IsUpsert(request)
  /\ response.statusCode = 200
  /\ request.fault = "none"
  /\ "skills" \in DOMAIN request.body
  /\ now = 3
  /\ LET first == create_or_update_profile_result(NoItem, NoItem, 1, request)
         second == create_or_update_profile_result(first.users, first.profiles, 2, request)
     IN /\ users_table = second.users
        /\ profiles_table = second.profiles
        /\ profiles_table[request.body["username"]]["created_at"] = 1
        /\ profiles_table[request.body["username"]]["updated_at"] = 2

CollectionDefault(f) == IF f = "social_links" THEN NoItem ELSE <<>>

\* C9: a POST /profiles answered 200 for a stored username keeps the stored
\* skills, projects and social_links the body omits, and stores the
\* submitted value of each one the body supplies non-empty.
C9_CollectionMerge ==
  [][UpdatesExisting =>
       LET body == request'.body
           before == profiles_table[body["username"]]
           after == profiles_table'[body["username"]]
       IN \A f \in {"skills", "projects", "social_links"} :
            /\ f \notin DOMAIN body => Get(after, f, CollectionDefault(f)) = Get(before, f, CollectionDefault(f))
            /\ (f \in DOMAIN body /\ body[f] # CollectionDefault(f)) => after[f] = body[f]]_vars

C9_Witness ==
  /\ IsUpsert(request)
  /\ response.statusCode = 200
  /\ "projects" \notin DOMAIN request.body
  /\ "skills" \in DOMAIN request.body
  /\ LET p == profiles_table[request.body["username"]]
     IN /\ p["created_at"] < p["updated_at"]
        /\ p["projects"] # <<>>
        /\ p["skills"] = request.body["skills"]
        /\ p["skills"] # <<>>

\* C10: a POST /profiles answered 200 whose body carries skills = [] for a
\* stored profile with non-empty skills leaves the stored skills as they were.
C10_EmptySkillsPreserve ==
  [][(/\ UpdatesExisting
      /\ "skills" \in DOMAIN request'.body
      /\ request'.body["skills"] = <<>>
      /\ Get(profiles_table[request'.body["username"]], "skills", <<>>) # <<>>)
     => profiles_table'[request'.body["username"]]["skills"]
          = profiles_table[request'.body["username"]]["skills"]]_vars

ScalarDefault(f) == IF f \in {"show_email", "show_phone", "show_resume"} THEN FALSE
                    ELSE IF f = "email" THEN <<>> ELSE ""

\* C11: a POST /profiles answered 200 for a stored username stores the
\* submitted bio, title, email, phone, show_email, show_phone and show_resume
\* of every key the body carries, the empty value included, and keeps the
\* stored value of every key the body omits.
C11_ScalarKeyPresence ==
  [][UpdatesExisting =>
       LET body == request'.body
           before == profiles_table[body["username"]]
           after == profiles_table'[body["username"]]
       IN \A f \in {"bio", "title", "email", "phone", "show_email", "show_phone", "show_resume"} :
            /\ f \in DOMAIN body => after[f] = body[f]
            /\ f \notin DOMAIN body => after[f] = Get(before, f, ScalarDefault(f))]_vars

\* The request cleared the bio and title that an earlier request with B1 stored.
C11_Witness ==
  /\ IsUpsert(request)
  /\ response.statusCode = 200
  /\ request.fault = "none"
  /\ Get(request.body, "bio", "none") = ""
  /\ "phone" \notin DOMAIN request.body
  /\ LET h == request.body["username"]
         earlier == [user_id |-> request.user_id, email |-> E1, body |-> Merge([username |-> h], B1),
                     fault |-> "none"]
         first == create_or_update_profile_result(NoItem, NoItem, 1, earlier)
         second == create_or_update_profile_result(first.users, first.profiles, 2, request)
     IN /\ profiles_table = second.profiles
        /\ first.profiles[h]["bio"] = "hi"
        /\ profiles_table[h]["bio"] = ""
        /\ profiles_table[h]["phone"] = "555"

\* C12: a POST /profiles answered 200 for a stored username whose body
\* carries the key full_name stores the submitted full_name, the empty one
\* included.
C12_FullNameKeyPresence ==
  [][(UpdatesExisting /\ "full_name" \in DOMAIN request'.body) =>
       profiles_table'[request'.body["username"]]["full_name"] = request'.body["full_name"]]_vars

IsConfirmation(req) == req.op = "PostConfirmation"

\* The number of entries of ids equal to id.
Occurrences(ids, id) == Cardinality({i \in 1..Len(ids) : ids[i] = id})

\* The step repeats the previous post-confirmation event, which carries an
\* email and meets no store failure.
RepeatsConfirmation ==
  /\ IsConfirmation(request)
  /\ request' = request
  /\ request.fault = "none"
  /\ event_email(request.event) # <<>>

\* C13: after the repeated confirmation one users record stands for the
\* identity, and it lists the identity once in cognito_user_ids.
C13_OneEntryAfterRepeat ==
  [][RepeatsConfirmation =>
       LET id == event_user_id(request.event)
           accounts == {k \in DOMAIN users_table' : k = id \/ Occurrences(Get(users_table'[k], "cognito_user_ids", <<>>), id) > 0}
       IN /\ Cardinality(accounts) = 1
          /\ \A k \in accounts : Occurrences(Get(users_table'[k], "cognito_user_ids", <<>>), id) = 1]_vars

\* The users records of another identity that carry the email of the event.
OriginalAccounts(event) ==
  {k \in DOMAIN users_table : /\ Get(users_table[k], "email", <<>>) = event_email(event)
                              /\ k # event_user_id(event)}

\* Record k after the step lists itself and the event's identity, no id
\* twice, and keeps its created_at.
LinkedInto(k, event) ==
  LET ids == Get(users_table'[k], "cognito_user_ids", <<>>)
  IN /\ Occurrences(ids, k) = 1
     /\ Occurrences(ids, event_user_id(event)) = 1
     /\ \A i \in 1..Len(ids) : Occurrences(ids, ids[i]) = 1
     /\ users_table'[k]["created_at"] = users_table[k]["created_at"]

IsPreSignup(req) == req.op = "PreSignUp"

Rejected(resp) == "raised" \in DOMAIN resp.body

\* C15: every pre-sign-up event of a social provider whose email_verified
\* claim is not "true" is rejected: the handler raises and does not return
\* the event, whatever list_users would answer.
C15_UnverifiedSocialRejected ==
  (/\ IsPreSignup(request)
   /\ is_social_signup(request.event.triggerSource)
   /\ Get(request.event.userAttributes, "email_verified", "false") # "true")
  => Rejected(response)

\* C16: when the handler reaches list_users and it answers at least one
\* user, the handler raises the account-already-exists exception, for
\* social and email sign-ups and whichever kind the listed user is; when
\* list_users raises, the handler returns the event.
C16_DuplicateRejectedFailOpen ==
  (IsPreSignup(request) /\ reaches_lookup(request.event)) =>
    /\ (request.fault = "none" /\ Len(request.listed) > 0) =>
         /\ Rejected(response)
         /\ response.body["raised"][1] = AlreadyExists
    /\ request.fault # "none" => response.body = [returned |-> "event"]

\* A verified social sign-up was rejected for an email that an email
\* sign-up already holds.
C16_Witness ==
  /\ IsPreSignup(request)
  /\ request.fault = "none"
  /\ is_social_signup(request.event.triggerSource)
  /\ request.listed = <<DirectIdentity>>
  /\ response.body = [raised |-> DuplicateForSocial]

CarriesNoHandle(event) == Strip(Get(event.userAttributes, "custom:username", <<>>)) = <<>>

\* C18: a post-confirmation event without custom:username leaves the
\* profiles table as it was; only an event with one changes it.
C18_SocialWritesNoProfile ==
  [][(IsConfirmation(request') /\ CarriesNoHandle(request'.event)) => profiles_table' = profiles_table]_vars

\* A Google sign-in wrote its users record at the last tick, after an email
\* sign-up had stored a profile, which is as it was.
C18_Witness ==
  /\ IsConfirmation(request)
  /\ CarriesNoHandle(request.event)
  /\ request.fault = "none"
  /\ \E k \in DOMAIN users_table : users_table[k]["updated_at"] = now - 1
  /\ profiles_table # NoItem
  /\ \A h \in DOMAIN profiles_table : profiles_table[h]["updated_at"] < now - 1

\* C19: a post-confirmation step that rewrites a users record whose
\* username is set leaves that username as it was.
C19_ExistingHandleKept ==
  [][IsConfirmation(request') =>
       \A k \in DOMAIN users_table :
         (users_table'[k] # users_table[k] /\ Get(users_table[k], "username", <<>>) # <<>>)
           => users_table'[k]["username"] = users_table[k]["username"]]_vars

\* A post-confirmation event with custom:username, of an identity that has
\* no profile and no users record under another id, asks for a username
\* that the profile of another user_id holds; no store call fails.
HandleCollision ==
  /\ IsConfirmation(request')
  /\ ~CarriesNoHandle(request'.event)
  /\ request'.fault = "none"
  /\ event_email(request'.event) # <<>>
  /\ OriginalAccounts(request'.event) = {}
  /\ query_by_user_id(profiles_table, event_user_id(request'.event)) = {}
  /\ derive_username(request'.event) \in DOMAIN profiles_table
  /\ Get(profiles_table[derive_username(request'.event)], "user_id", <<>>) # event_user_id(request'.event)

\* C20: on such a collision the profile is written under the username with
\* "_" and the first 8 characters of the identity id appended, and the
\* users record of the identity carries that same username.
C20_DisambiguatedHandleInBoth ==
  [][HandleCollision =>
       LET id == event_user_id(request'.event)
           d == derive_username(request'.event) \o <<"_">> \o Take(id, UserIdPrefixLen)
       IN /\ d \in DOMAIN profiles_table'
          /\ profiles_table'[d]["user_id"] = id
          /\ profiles_table'[d]["updated_at"] = now
          /\ id \in DOMAIN users_table'
          /\ users_table'[id]["username"] = d]_vars


IsRead(req) == req.op \in {"GET /users/me", "GET /username/check"}

StoreFailed(req) ==
  /\ IsRead(req)
  /\ req.fault # "none"
  /\ req.op = "GET /users/me" => req.user_id # NoUser
  /\ req.op = "GET /username/check" => matches_username_format(checked_username(req.params))

EchoesDetail(body) ==
  \E k \in DOMAIN body :
    \E d \in {ClientErrorDetail, OtherErrorDetail} : body[k] \in {d, "Internal server error: " \o d}

\* C21: a failure of the backing store in an HTTP operation yields a 500
\* response whose body does not contain the text of the original error.
C21_StoreFailureNotEchoed ==
  StoreFailed(request) => response.statusCode = 500 /\ ~EchoesDetail(response.body)

SubmittedHandle(req) == Get(req.body, "username", <<>>)

\* C22: an upsert whose handle is missing or does not match
\* ^[a-z0-9_-]{3,20}$ answers 400 and writes nothing, and no profile is ever
\* stored under a malformed handle.
C22_MalformedHandleRejected ==
  [][/\ (IsUpsert(request') /\ request'.user_id # NoUser
           /\ ~matches_username_format(SubmittedHandle(request')))
        => /\ response'.statusCode = 400
           /\ UNCHANGED <<users_table, profiles_table>>
     /\ \A h \in DOMAIN profiles_table' : matches_username_format(h)]_vars

IsDelete(req) == req.op = "DELETE /links/{id}"

DeletedKey(req) == <<req.user_id, req.link_id>>

\* C23: DELETE /links/{id} on an existing link of the caller sets is_deleted
\* and answers 200 (or 500 with the store unchanged when the store fails),
\* on a link the caller does not have answers 404 and changes nothing, and
\* no operation removes a record from the link store.
C23_SoftDelete ==
  [][/\ (IsDelete(request') /\ request'.user_id # NoUser)
        => IF DeletedKey(request') \in DOMAIN links_table
             THEN \/ /\ response'.statusCode = 200
                     /\ DeletedKey(request') \in DOMAIN links_table'
                     /\ links_table'[DeletedKey(request')].is_deleted
                  \/ /\ response'.statusCode = 500
                     /\ request'.fault # "none"
                     /\ UNCHANGED links_table
           ELSE /\ response'.statusCode \in {404, 500}
                /\ response'.statusCode = 500 => request'.fault # "none"
                /\ UNCHANGED links_table
     /\ DOMAIN links_table \subseteq DOMAIN links_table']_vars

IsCheck(req) == req.op = "GET /username/check"

\* The answer the claim prescribes for a username-check whose format test is
\* applied to the handle h.
CheckAnswers(h) ==
  /\ UNCHANGED <<users_table, profiles_table, links_table>>
  /\ IF ~matches_username_format(h)
       THEN response'.statusCode = 400
     ELSE IF request'.fault # "none"
       THEN response'.statusCode = 500
     ELSE /\ response'.statusCode = 200
          /\ response'.body.available = (Lower(Strip(h)) \notin DOMAIN profiles_table)

\* C24 as stated: GET /username/check answers 400 when the username parameter
\* is missing or does not match ^[a-z0-9_-]{3,20}$, otherwise 200 with
\* available true exactly when no profile is stored under the handle, and
\* modifies no store.
C24_CheckRawParameter ==
  [][IsCheck(request') => CheckAnswers(Get(request'.params, "username", <<>>))]_vars

\* C24 amended: the format test and the lookup apply to the parameter after
\* trimming and lower-casing.
C24_CheckNormalisedParameter ==
  [][IsCheck(request') => CheckAnswers(checked_username(request'.params))]_vars

C24_Witness ==
  /\ IsCheck(request)
  /\ request.fault = "none"
  /\ request.params = [username |-> PaddedBob]
  /\ BOB \in DOMAIN profiles_table
  /\ response.statusCode = 200
  /\ response.body = [available |-> FALSE, username |-> BOB]

\* The Account fields an upsert may change.
ChangeableByUpsert(req) ==
  {"username", "profile_complete", "updated_at"}
    \cup (IF Get(req.body, "date_of_birth", "") # "" THEN {"date_of_birth"} ELSE {})

\* C25: an upsert by a caller whose Account exists changes no Account field
\* other than username, profile_complete, updated_at and a supplied
\* date_of_birth, and a successful one records the handle and
\* profile_complete = TRUE.
C25_AccountFrame ==
  [][(IsUpsert(request') /\ request'.user_id \in DOMAIN users_table)
       => /\ request'.user_id \in DOMAIN users_table'
          /\ \A f \in (DOMAIN users_table[request'.user_id] \cup DOMAIN users_table'[request'.user_id])
                        \ ChangeableByUpsert(request') :
               /\ f \in DOMAIN users_table[request'.user_id]
               /\ f \in DOMAIN users_table'[request'.user_id]
               /\ users_table'[request'.user_id][f] = users_table[request'.user_id][f]
          /\ response'.statusCode = 200
               => /\ users_table'[request'.user_id].username = SubmittedHandle(request')
                  /\ users_table'[request'.user_id].profile_complete]_vars

\* An upsert with a date of birth has completed the Account of a social
\* sign-up, which keeps its name, picture, email and creation time.
C25_Witness ==
  /\ IsUpsert(request)
  /\ response.statusCode = 200
  /\ request.user_id \in DOMAIN users_table
  /\ LET user == users_table[request.user_id]
     IN /\ Get(user, "date_of_birth", "") = "1999-09-09"
        /\ Get(user, "picture", "") # ""
        /\ Get(user, "fullname", <<>>) = AL_SM
        /\ user.username = BOB
        /\ user.profile_complete
        /\ user.created_at < user.updated_at

Succeeded(user_id, handle) ==
  /\ user_id \in DOMAIN calls
  /\ calls[user_id].pc = "done"
  /\ calls[user_id].statusCode = 200
  /\ calls[user_id].in.body.username = handle

\* C26: when two concurrent upserts by different accounts for the same handle
\* have both passed the uniqueness test and both answered 200, the profile
\* under the handle belongs to the one that wrote last and both Accounts
\* record the handle.
C26_RaceLastWriterWins ==
  \A a \in DOMAIN calls, b \in DOMAIN calls, h \in {BOB, AMY} :
    (a # b /\ Succeeded(a, h) /\ Succeeded(b, h) /\ calls[a].put_at < calls[b].put_at)
      => /\ profiles_table[h].user_id = b
         /\ users_table[a].username = h
         /\ users_table[b].username = h

\* Both accounts asked for the free handle bob, both were answered 200; the
\* profile is the second account's and both Accounts are named bob.
C26_Witness ==
  /\ Succeeded(U1, BOB)
  /\ Succeeded(U2, BOB)
  /\ calls[U1].put_at < calls[U2].put_at
  /\ calls[U1].existing_item = NoItem
  /\ profiles_table[BOB].user_id = U2
  /\ users_table[U1].username = BOB
  /\ users_table[U2].username = BOB

\* C27: once an Account has profile_complete = TRUE, no operation sets it
\* back to FALSE.
C27_ProfileCompleteMonotonic ==
  [][\A k \in DOMAIN users_table :
       Get(users_table[k], "profile_complete", FALSE)
         => k \in DOMAIN users_table' /\ Get(users_table'[k], "profile_complete", FALSE)]_vars

\* C28: an upsert that answers 400, 401, 409 or 500 leaves the users table
\* and the profiles table as they were before the call.
C28_ErrorWritesNothing ==
  [][(IsUpsert(request') /\ response'.statusCode \in {400, 401, 409, 500})
       => UNCHANGED <<users_table, profiles_table>>]_vars

IsLinkPost(req) == req.op = "POST /links"

PostedKey(req) == <<req.user_id, Get(req.body, "link_id", EmptyLinkId)>>

\* C29: a link with is_deleted set is in no projection; is_deleted is
\* cleared only by a successful POST /links of the same account with the
\* same link_id; and that POST stores the item with is_deleted false and
\* without created_at.
C29_HiddenUntilResaved ==
  [][/\ \A k \in DOMAIN links_table :
          (links_table[k].is_deleted /\ k \in DOMAIN links_table' /\ ~links_table'[k].is_deleted)
            => /\ IsLinkPost(request')
               /\ PostedKey(request') = k
               /\ response'.statusCode = 200
     /\ (IsLinkPost(request') /\ response'.statusCode = 200 /\ PostedKey(request') \in DOMAIN links_table)
          => /\ ~links_table'[PostedKey(request')].is_deleted
             /\ "created_at" \notin DOMAIN links_table'[PostedKey(request')]
     /\ (IsProjection(request') /\ response'.statusCode = 200)
          => \A i \in 1..Len(links') : ~links_table'[<<links'[i].user_id, links'[i].link_id>>].is_deleted]_vars

\* A projection lists the owner's only link, saved again over its record at
\* the fourth write and stored without created_at.
C29_Witness ==
  /\ IsProjection(request)
  /\ response.statusCode = 200
  /\ DOMAIN links_table = {<<U1, 1>>}
  /\ Len(links) = 1
  /\ links[1] = links_table[<<U1, 1>>]
  /\ "created_at" \notin DOMAIN links[1]
  /\ links[1].updated_at >= 4

IsLinkWrite(req) == IsLinkPost(req) \/ IsDelete(req)

OthersUntouched ==
  \A k \in DOMAIN links_table \cup DOMAIN links_table' :
    k[1] # request'.user_id
      => k \in DOMAIN links_table /\ k \in DOMAIN links_table' /\ links_table'[k] = links_table[k]

\* The link id is held by another account and not by the caller.
HeldByOtherOnly(user_id, link_id) ==
  /\ user_id # NoUser
  /\ <<user_id, link_id>> \notin DOMAIN links_table
  /\ \E k \in DOMAIN links_table : k[2] = link_id /\ k[1] # user_id

PostsOwnRecord ==
  (IsLinkPost(request') /\ response'.statusCode = 200 /\ HeldByOtherOnly(request'.user_id, PostedKey(request')[2]))
    => /\ PostedKey(request') \in DOMAIN links_table'
       /\ links_table'[PostedKey(request')].user_id = request'.user_id

ValidLinkId(link_id) == link_id_len(link_id) > 0 /\ link_id_len(link_id) <= MaxLinkIdLen

====
